---- MODULE Spec2Model ----
(***************************************************************************)
(* Model of the movie-tracking web application: validators (validators.py), *)
(* the SQLAlchemy data manager (data_managers/sqlite_data_manager.py), the  *)
(* service layer (services.py) and the Flask request handlers (app.py).     *)
(*                                                                          *)
(* Strings are sequences of one-character strings, so that strip(), lower() *)
(* len() and int() are computed as Python computes them.  An optional       *)
(* integer (a nullable column, a validator's None) is <<>> for None and     *)
(* <<n>> for the integer n.                                                 *)
(***************************************************************************)
EXTENDS Integers, Sequences, FiniteSets, TLC

\* ------------------------------------------------------------------ bounds
MaxUsers  == 2      \* rows in the users table
MaxMovies == 2      \* rows (and largest id) in the movies table
MaxLit    == 4      \* length of the year/rating literals that are enumerated

\* ------------------------------------------------------- program constants
UserNameMax  == 30
MovieNameMax == 60
YearMin      == 1900
YearMax      == 2025
RatingMin    == 1
RatingMax    == 10

\* ----------------------------------------------------------------- strings
None == <<>>

Some(n) == <<n>>

RECURSIVE Rep(_, _)
Rep(c, n) == IF n = 0 THEN <<>> ELSE <<c>> \o Rep(c, n - 1)

IsSpace(c) == c = " "

\* str.lower() on one character
LowerChar(c) ==
    CASE c = "A" -> "a"
      [] c = "B" -> "b"
      [] c = "U" -> "u"
      [] c = "D" -> "d"
      [] OTHER   -> c

\* str.lower()
Lower(s) == [i \in 1..Len(s) |-> LowerChar(s[i])]

RECURSIVE LStrip(_)
LStrip(s) == IF s # <<>> /\ IsSpace(Head(s)) THEN LStrip(Tail(s)) ELSE s

RECURSIVE RStrip(_)
RStrip(s) ==
    IF s # <<>> /\ IsSpace(s[Len(s)]) THEN RStrip(SubSeq(s, 1, Len(s) - 1)) ELSE s

\* str.strip()
Strip(s) == RStrip(LStrip(s))

\* Python truthiness of a str
Truthy(s) == s # <<>>

\* `not s or not s.strip()`
Blank(s) == ~Truthy(s) \/ ~Truthy(Strip(s))

\* ------------------------------------------------------------------- int()
Digits == {"0", "1", "2", "5", "6", "8", "9"}

DigitVal(c) ==
    CASE c = "0" -> 0 [] c = "1" -> 1 [] c = "2" -> 2 [] c = "5" -> 5
      [] c = "6" -> 6 [] c = "8" -> 8 [] c = "9" -> 9 [] OTHER -> 0

\* digit (["_"] digit)*
RECURSIVE IsDigitRun(_)
IsDigitRun(s) ==
    /\ s # <<>>
    /\ Head(s) \in Digits
    /\ \/ Len(s) = 1
       \/ IsDigitRun(Tail(s))
       \/ Len(s) >= 3 /\ s[2] = "_" /\ IsDigitRun(Tail(Tail(s)))

HasSign(s) == s # <<>> /\ Head(s) \in {"+", "-"}

\* the digits of a literal: surrounding whitespace and the sign removed
Unsigned(s) == IF HasSign(Strip(s)) THEN Tail(Strip(s)) ELSE Strip(s)

\* int(s) does not raise ValueError
IsIntLiteral(s) == IsDigitRun(Unsigned(s))

RECURSIVE DigitRunVal(_, _)
DigitRunVal(s, acc) ==
    IF s = <<>> THEN acc
    ELSE IF Head(s) = "_" THEN DigitRunVal(Tail(s), acc)
    ELSE DigitRunVal(Tail(s), 10 * acc + DigitVal(Head(s)))

\* the value of int(s) for a literal s
IntValue(s) ==
    IF HasSign(Strip(s)) /\ Head(Strip(s)) = "-"
    THEN 0 - DigitRunVal(Unsigned(s), 0)
    ELSE DigitRunVal(Unsigned(s), 0)

\* -------------------------------------------------------------- validators
\* A validator returns (is_valid, value_or_error): ok, err (the message, ""
\* on success) and val (the value, None on failure).
Ok(v) == [ok |-> TRUE, err |-> "", val |-> v]

Fail(msg) == [ok |-> FALSE, err |-> msg, val |-> None]

\* validate_user_name comparing the names as they are written
validate_user_name_exact(name, existing_users) ==
    IF ~Truthy(name) THEN Fail("User name is required.")
    ELSE IF Len(name) > UserNameMax THEN Fail("User name must be 30 characters or less.")
    ELSE IF existing_users # {} /\ \E user \in existing_users : user.name = name
         THEN Fail("A user with this name already exists.")
    ELSE Ok(None)

validate_user_name(name, existing_users) ==
    IF ~Truthy(name) THEN Fail("User name is required.")
    ELSE IF Len(name) > UserNameMax THEN Fail("User name must be 30 characters or less.")
    ELSE IF existing_users # {}
            /\ \E user \in existing_users : Lower(user.name) = Lower(name)
         THEN Fail("A user with this name already exists.")
    ELSE Ok(None)

validate_movie_name(name) ==
    IF ~Truthy(name) THEN Fail("Movie name is required.")
    ELSE IF Len(name) > MovieNameMax THEN Fail("Movie name must be 60 characters or less.")
    ELSE Ok(None)

validate_director_name(director) ==
    IF ~Truthy(director) THEN Fail("Director name is required.")
    ELSE IF Len(director) > MovieNameMax
         THEN Fail("Director name must be 60 characters or less.")
    ELSE Ok(None)

\* validate_year with the lower limit excluded
validate_year_strict(year_str) ==
    IF ~Truthy(year_str) THEN Ok(None)
    ELSE IF ~IsIntLiteral(year_str) THEN Fail("Please enter a valid year.")
    ELSE IF IntValue(year_str) <= YearMin \/ IntValue(year_str) > YearMax
         THEN Fail("Year must be between 1900 and 2025.")
    ELSE Ok(Some(IntValue(year_str)))

validate_year(year_str) ==
    IF ~Truthy(year_str) THEN Ok(None)
    ELSE IF ~IsIntLiteral(year_str) THEN Fail("Please enter a valid year.")
    ELSE IF IntValue(year_str) < YearMin \/ IntValue(year_str) > YearMax
         THEN Fail("Year must be between 1900 and 2025.")
    ELSE Ok(Some(IntValue(year_str)))

validate_rating(rating_str) ==
    IF ~Truthy(rating_str) THEN Ok(None)
    ELSE IF ~IsIntLiteral(rating_str) THEN Fail("Please enter a valid rating.")
    ELSE IF IntValue(rating_str) < RatingMin \/ IntValue(rating_str) > RatingMax
         THEN Fail("Rating must be between 1 and 10.")
    ELSE Ok(Some(IntValue(rating_str)))

\* validate_movie_duplicate comparing name and director as they are written
validate_movie_duplicate_exact(name, director, existing_movies) ==
    IF \E movie \in existing_movies : movie.name = name /\ movie.director = director
    THEN Fail("This movie already exists in your collection.")
    ELSE Ok(None)

validate_movie_duplicate(name, director, existing_movies) ==
    IF \E movie \in existing_movies :
          Lower(movie.name) = Lower(name) /\ Lower(movie.director) = Lower(director)
    THEN Fail("This movie already exists in your collection.")
    ELSE Ok(None)

\* the validated data of validate_movie_data / validate_user_data: ok, err
\* and the cleaned fields
Data(name, director, year, rating) ==
    [ok |-> TRUE, err |-> "", name |-> name, director |-> director,
     year |-> year, rating |-> rating]

DataFail(msg) ==
    [ok |-> FALSE, err |-> msg, name |-> <<>>, director |-> <<>>,
     year |-> None, rating |-> None]

\* validate_movie_data that validates the rating before the year
validate_movie_data_rating_first(form_data, check_dup, existing_movies) ==
    LET name       == Strip(form_data.name)
        director   == Strip(form_data.director)
        year_str   == Strip(form_data.year)
        rating_str == Strip(form_data.rating)
    IN  IF ~validate_movie_name(name).ok THEN DataFail(validate_movie_name(name).err)
        ELSE IF ~validate_director_name(director).ok
             THEN DataFail(validate_director_name(director).err)
        ELSE IF ~validate_rating(rating_str).ok
             THEN DataFail(validate_rating(rating_str).err)
        ELSE IF ~validate_year(year_str).ok THEN DataFail(validate_year(year_str).err)
        ELSE IF check_dup /\ ~validate_movie_duplicate(name, director, existing_movies).ok
             THEN DataFail(validate_movie_duplicate(name, director, existing_movies).err)
        ELSE Data(name, director, validate_year(year_str).val,
                  validate_rating(rating_str).val)

\* existing_movies is None (check_dup = FALSE) or a list
validate_movie_data(form_data, check_dup, existing_movies) ==
    LET name       == Strip(form_data.name)
        director   == Strip(form_data.director)
        year_str   == Strip(form_data.year)
        rating_str == Strip(form_data.rating)
    IN  IF ~validate_movie_name(name).ok THEN DataFail(validate_movie_name(name).err)
        ELSE IF ~validate_director_name(director).ok
             THEN DataFail(validate_director_name(director).err)
        ELSE IF ~validate_year(year_str).ok THEN DataFail(validate_year(year_str).err)
        ELSE IF ~validate_rating(rating_str).ok
             THEN DataFail(validate_rating(rating_str).err)
        ELSE IF check_dup /\ ~validate_movie_duplicate(name, director, existing_movies).ok
             THEN DataFail(validate_movie_duplicate(name, director, existing_movies).err)
        ELSE Data(name, director, validate_year(year_str).val,
                  validate_rating(rating_str).val)

validate_user_data(form_data, existing_users) ==
    LET name == Strip(form_data.name)
    IN  IF ~validate_user_name(name, existing_users).ok
        THEN DataFail(validate_user_name(name, existing_users).err)
        ELSE Data(name, <<>>, None, None)

\* ------------------------------------------------------------------ storage
\* The database and the SQLAlchemy session that the data manager works on:
\* S.users and S.movies are the committed rows, S.dirty the attribute changes
\* made to loaded Movie objects that are not flushed yet (at most one entry
\* per movie id).
State(us, ms, d) == [users |-> us, movies |-> ms, dirty |-> d]

UserRow(id, name) == [id |-> id, name |-> name]

MovieRow(id, name, director, year, rating, user_id) ==
    [id |-> id, name |-> name, director |-> director, year |-> year,
     rating |-> rating, user_id |-> user_id]

Ids(rows) == {r.id : r \in rows}

\* INTEGER PRIMARY KEY of SQLite: the largest id in the table plus one
NextId(rows) ==
    IF rows = {} THEN 1 ELSE 1 + CHOOSE n \in Ids(rows) : \A k \in Ids(rows) : k <= n

\* a loaded Movie object: the row with the session's pending changes
Loaded(S, row) ==
    IF \E d \in S.dirty : d.id = row.id
    THEN LET d == CHOOSE d \in S.dirty : d.id = row.id
         IN  MovieRow(row.id, d.name, d.director, d.year, d.rating, row.user_id)
    ELSE row

\* what a query of this session returns for the movies table
SessionMovies(S) == {Loaded(S, row) : row \in S.movies}

\* db.session.commit(): the pending changes are flushed and made persistent
Commit(S) == State(S.users, SessionMovies(S), {})

\* db.session.rollback(): the pending changes are dropped
Rollback(S) == State(S.users, S.movies, {})

\* the constraints the tables declare: the primary keys
UsersIntegrityOk(S, row) == row.id \notin Ids(S.users)

MoviesIntegrityOk(S, row) == row.id \notin Ids(S.movies)

\* the same constraint on the rows a flush of the pending changes writes
FlushIntegrityOk(S) == \A a, b \in SessionMovies(S) : a.id = b.id => a = b

\* ------------------------------------------------------------- data manager
\* The result of a data-manager call: exc is "" when the call returns and the
\* exception class when it raises, msg is str(e), rows the returned objects,
\* flag a returned bool, S the storage afterwards and commits the number of
\* commits that were attempted.
Faults == {"none", "read", "lookup", "commit"}

StorageError == "(sqlite3.OperationalError) storage engine detail"

Returns(S, rows, flag, commits) ==
    [exc |-> "", msg |-> "", rows |-> rows, flag |-> flag, S |-> S, commits |-> commits]

Raises(S, exc, msg, commits) ==
    [exc |-> exc, msg |-> msg, rows |-> {}, flag |-> FALSE, S |-> S, commits |-> commits]

\* query_func raises SQLAlchemyError (failed) or returns rows
safe_query(S, rows, failed) ==
    IF failed THEN Raises(Rollback(S), "SQLAlchemyError", StorageError, 0)
    ELSE Returns(S, rows, TRUE, 0)

get_all_users(S, failed) == safe_query(S, S.users, failed)

get_user_movies(S, user_id, failed) ==
    safe_query(S, {m \in SessionMovies(S) : m.user_id = user_id}, failed)

get_movie_by_id(S, movie_id, failed) ==
    IF movie_id = 0 THEN Raises(S, "ValueError", "Movie ID is required", 0)
    ELSE safe_query(S, {m \in SessionMovies(S) : m.id = movie_id}, failed)

get_user_by_id(S, user_id, failed) ==
    IF user_id = 0 THEN Raises(S, "ValueError", "User ID is required", 0)
    ELSE safe_query(S, {u \in S.users : u.id = user_id}, failed)

add_user(S, name, fault) ==
    IF Blank(name) THEN Raises(S, "ValueError", "User name cannot be empty", 0)
    ELSE LET row == UserRow(NextId(S.users), name)
         IN  IF fault = "commit"
             THEN Raises(Rollback(S), "SQLAlchemyError", StorageError, 1)
             ELSE IF ~UsersIntegrityOk(S, row)
             THEN Raises(Rollback(S), "ValueError",
                         "A user with this name already exists.", 1)
             ELSE Returns(Commit(State(S.users \cup {row}, S.movies, S.dirty)),
                          {row}, TRUE, 1)

\* movie: the fields of the Movie object that is passed
\* add_movie that looks the user up only after the commit
add_movie_late_check(S, movie, fault) ==
    IF Blank(movie.name) THEN Raises(S, "ValueError", "Movie name cannot be empty", 0)
    ELSE IF Blank(movie.director)
         THEN Raises(S, "ValueError", "Movie director cannot be empty", 0)
    ELSE IF movie.user_id = 0
         THEN Raises(S, "ValueError", "Movie must be associated with a user", 0)
    ELSE LET user == get_user_by_id(S, movie.user_id, fault = "lookup")
             row  == MovieRow(NextId(S.movies), movie.name, movie.director,
                              movie.year, movie.rating, movie.user_id)
             T    == Commit(State(S.users, S.movies \cup {row}, S.dirty))
         IN  IF fault = "commit"
             THEN Raises(Rollback(S), "SQLAlchemyError", StorageError, 1)
             ELSE IF user.exc # "" THEN [user EXCEPT !.S = T, !.commits = 1]
             ELSE IF user.rows = {}
             THEN Raises(T, "ValueError", "User with ID <user_id> does not exist", 1)
             ELSE Returns(T, {row}, TRUE, 1)

add_movie(S, movie, fault) ==
    IF Blank(movie.name) THEN Raises(S, "ValueError", "Movie name cannot be empty", 0)
    ELSE IF Blank(movie.director)
         THEN Raises(S, "ValueError", "Movie director cannot be empty", 0)
    ELSE IF movie.user_id = 0
         THEN Raises(S, "ValueError", "Movie must be associated with a user", 0)
    ELSE LET user == get_user_by_id(S, movie.user_id, fault = "lookup")
             row  == MovieRow(NextId(S.movies), movie.name, movie.director,
                              movie.year, movie.rating, movie.user_id)
         IN  IF user.exc # "" THEN user
             ELSE IF user.rows = {}
             THEN Raises(S, "ValueError", "User with ID <user_id> does not exist", 0)
             ELSE IF fault = "commit"
             THEN Raises(Rollback(S), "SQLAlchemyError", StorageError, 1)
             ELSE IF ~MoviesIntegrityOk(S, row)
             THEN Raises(Rollback(S), "ValueError",
                         "This movie already exists in your collection for this user.", 1)
             ELSE Returns(Commit(State(S.users, S.movies \cup {row}, S.dirty)),
                          {row}, TRUE, 1)

\* delete_movie that treats a missing movie as an error, as update_movie does
delete_movie_raising(S, movie_id, fault) ==
    IF movie_id = 0 THEN Raises(S, "ValueError", "Movie ID is required", 0)
    ELSE LET movie == safe_query(S, {m \in SessionMovies(S) : m.id = movie_id},
                                 fault = "lookup")
         IN  IF movie.exc # "" THEN movie
             ELSE IF movie.rows = {}
             THEN Raises(S, "ValueError", "Movie with ID <id> does not exist", 0)
             ELSE IF fault = "commit"
             THEN Raises(Rollback(S), "SQLAlchemyError", StorageError, 1)
             ELSE Returns(Commit(State(S.users,
                                       {m \in S.movies : m.id # movie_id},
                                       {d \in S.dirty : d.id # movie_id})),
                          {}, TRUE, 1)

delete_movie(S, movie_id, fault) ==
    IF movie_id = 0 THEN Raises(S, "ValueError", "Movie ID is required", 0)
    ELSE LET movie == safe_query(S, {m \in SessionMovies(S) : m.id = movie_id},
                                 fault = "lookup")
         IN  IF movie.exc # "" THEN movie
             ELSE IF movie.rows = {} THEN Returns(S, {}, FALSE, 0)
             ELSE IF fault = "commit"
             THEN Raises(Rollback(S), "SQLAlchemyError", StorageError, 1)
             ELSE Returns(Commit(State(S.users,
                                       {m \in S.movies : m.id # movie_id},
                                       {d \in S.dirty : d.id # movie_id})),
                          {}, TRUE, 1)

\* the first line of defence of update_movie, on the fields just assigned
update_movie_check(m) ==
    IF Blank(m.name) THEN "Movie name cannot be empty"
    ELSE IF Blank(m.director) THEN "Director name cannot be empty"
    ELSE IF m.rating # None /\ (m.rating[1] < RatingMin \/ m.rating[1] > RatingMax)
         THEN "Rating must be between 1 and 10"
    ELSE IF m.year # None /\ (m.year[1] < YearMin \/ m.year[1] > YearMax)
         THEN "Year must be between 1900 and 2025"
    ELSE ""

\* existing_movie.<field> = movie.<field>: a pending change of the session
Assign(S, movie) ==
    State(S.users, S.movies,
          {d \in S.dirty : d.id # movie.id}
            \cup {[id |-> movie.id, name |-> movie.name, director |-> movie.director,
                   year |-> movie.year, rating |-> movie.rating]})

\* movie: the id and the new fields of the Movie object that is passed
update_movie(S, movie, fault) ==
    LET existing_movie == get_movie_by_id(S, movie.id, fault = "lookup")
    IN  IF existing_movie.exc # "" THEN existing_movie
        ELSE IF existing_movie.rows = {}
        THEN Raises(S, "ValueError", "Movie with ID <id> does not exist for update", 0)
        ELSE IF update_movie_check(movie) # ""
        THEN Raises(Assign(S, movie), "ValueError", update_movie_check(movie), 0)
        ELSE IF fault = "commit"
        THEN Raises(Rollback(Assign(S, movie)), "SQLAlchemyError", StorageError, 1)
        ELSE IF ~FlushIntegrityOk(Assign(S, movie))
        THEN Raises(Rollback(Assign(S, movie)), "ValueError",
                    "A movie with this name and director already exists for this user.", 1)
        ELSE LET T == Commit(Assign(S, movie))
             IN  Returns(T, {m \in T.movies : m.id = movie.id}, TRUE, 1)

\* ------------------------------------------------------------ service layer
\* The outcome of a service call: kind is "return" with the pair (ok, msg or
\* rows) or "raise" with the exception that reaches the caller.
GenericMessage == "An unexpected error occurred. Please try again."

SvcReturn(ok, msg, rows, S, commits) ==
    [kind |-> "return", ok |-> ok, msg |-> msg, exc |-> "", rows |-> rows,
     S |-> S, commits |-> commits]

SvcRaise(r) ==
    [kind |-> "raise", ok |-> FALSE, msg |-> r.msg, exc |-> r.exc, rows |-> {},
     S |-> r.S, commits |-> r.commits]

\* r: the result of func()
execute_service_method(r) ==
    IF r.exc = "" THEN SvcReturn(TRUE, "", r.rows, r.S, r.commits)
    ELSE IF r.exc = "ValueError" THEN SvcReturn(FALSE, r.msg, {}, r.S, r.commits)
    ELSE SvcReturn(FALSE, GenericMessage, {}, r.S, r.commits)

create_user(S, form_data, fault) ==
    LET existing_users == get_all_users(S, fault = "read")
        v == validate_user_data(form_data, existing_users.rows)
    IN  IF existing_users.exc # "" THEN SvcRaise(existing_users)
        ELSE IF ~v.ok THEN SvcReturn(FALSE, v.err, {}, S, 0)
        ELSE execute_service_method(add_user(S, v.name, fault))

NewMovie(v, user_id) ==
    [name |-> v.name, director |-> v.director, year |-> v.year, rating |-> v.rating,
     user_id |-> user_id]

create_movie(S, user_id, form_data, fault) ==
    LET existing_movies == get_user_movies(S, user_id, fault = "read")
        v == validate_movie_data(form_data, TRUE, existing_movies.rows)
    IN  IF existing_movies.exc # "" THEN SvcRaise(existing_movies)
        ELSE IF ~v.ok THEN SvcReturn(FALSE, v.err, {}, S, 0)
        ELSE execute_service_method(add_movie(S, NewMovie(v, user_id), fault))

Changed(v, movie_id) ==
    [id |-> movie_id, name |-> v.name, director |-> v.director, year |-> v.year,
     rating |-> v.rating]

\* update_movie that assigns the submitted fields before it validates them
svc_update_movie_eager(S, movie_id, form_data, fault) ==
    LET movie == get_movie_by_id(S, movie_id, fault = "read")
        v == validate_movie_data(form_data, FALSE, {})
        raw == [id |-> movie_id, name |-> Strip(form_data.name),
                director |-> Strip(form_data.director), year |-> None, rating |-> None]
    IN  IF movie.exc # "" THEN SvcRaise(movie)
        ELSE IF movie.rows = {} THEN SvcReturn(FALSE, "Movie not found.", {}, S, 0)
        ELSE IF ~v.ok THEN SvcReturn(FALSE, v.err, {}, Assign(S, raw), 0)
        ELSE execute_service_method(
                 update_movie(Assign(S, Changed(v, movie_id)), Changed(v, movie_id), fault))

svc_update_movie(S, movie_id, form_data, fault) ==
    LET movie == get_movie_by_id(S, movie_id, fault = "read")
        v == validate_movie_data(form_data, FALSE, {})
    IN  IF movie.exc # "" THEN SvcRaise(movie)
        ELSE IF movie.rows = {} THEN SvcReturn(FALSE, "Movie not found.", {}, S, 0)
        ELSE IF ~v.ok THEN SvcReturn(FALSE, v.err, {}, S, 0)
        ELSE execute_service_method(
                 update_movie(Assign(S, Changed(v, movie_id)), Changed(v, movie_id), fault))

svc_delete_movie(S, movie_id, fault) ==
    LET movie == get_movie_by_id(S, movie_id, fault = "read")
        r == delete_movie(S, movie_id, fault)
    IN  IF movie.exc # "" THEN SvcRaise(movie)
        ELSE IF movie.rows = {} THEN SvcReturn(FALSE, "Movie not found.", {}, S, 0)
        ELSE IF r.exc = "" /\ ~r.flag
             THEN SvcReturn(FALSE, "Error deleting movie.", {}, r.S, r.commits)
        ELSE execute_service_method([r EXCEPT !.rows = movie.rows])

\* validate_movie_ownership without the comparison of the owner
validate_movie_ownership_any(S, movie_id, user_id, fault) ==
    LET movie == get_movie_by_id(S, movie_id, fault = "read")
    IN  IF movie.exc # ""
        THEN SvcReturn(FALSE, "Error validating movie access.", {}, movie.S, 0)
        ELSE IF movie.rows = {} THEN SvcReturn(FALSE, "Movie not found.", {}, S, 0)
        ELSE SvcReturn(TRUE, "", movie.rows, S, 0)

validate_movie_ownership(S, movie_id, user_id, fault) ==
    LET movie == get_movie_by_id(S, movie_id, fault = "read")
    IN  IF movie.exc # ""
        THEN SvcReturn(FALSE, "Error validating movie access.", {}, movie.S, 0)
        ELSE IF movie.rows = {} THEN SvcReturn(FALSE, "Movie not found.", {}, S, 0)
        ELSE IF \E m \in movie.rows : m.user_id # user_id
             THEN SvcReturn(FALSE, "Access denied.", {}, S, 0)
        ELSE SvcReturn(TRUE, "", movie.rows, S, 0)

\* ---------------------------------------------------------- request handlers
\* The outcome of a request: the flashed message and its category ("" when
\* the page is only rendered), the storage afterwards and the commits made.
Flash(msg, category, S, commits) ==
    [kind |-> "response", ok |-> category # "error", msg |-> msg, exc |-> "",
     rows |-> {}, S |-> S, commits |-> commits]

\* the session is scoped to the request: it starts and ends without pending
\* changes
RequestSession(S) == Rollback(S)

h_add_user(S0, method, form, fault) ==
    LET S == RequestSession(S0)
        existing_users == get_all_users(S, fault = "read")
        v == validate_user_data(form, existing_users.rows)
        r == add_user(S, v.name, fault)
    IN  IF method = "GET" THEN Flash("", "", S, 0)
        ELSE IF existing_users.exc # ""
        THEN Flash("Error adding user. Please try again.", "error",
                   RequestSession(existing_users.S), 0)
        ELSE IF ~v.ok THEN Flash(v.err, "error", S, 0)
        ELSE IF r.exc # ""
        THEN Flash("Error adding user. Please try again.", "error",
                   RequestSession(r.S), r.commits)
        ELSE Flash("User added successfully!", "success", RequestSession(r.S), r.commits)

h_add_movie_to_user(S0, user_id, method, form, fault) ==
    LET S == RequestSession(S0)
        user == get_user_by_id(S, user_id, fault = "read")
        existing_movies == get_user_movies(S, user_id, FALSE)
        v == validate_movie_data(form, TRUE, existing_movies.rows)
        r == add_movie(S, NewMovie(v, user_id), fault)
    IN  IF user.exc # ""
        THEN Flash("Error processing movie. Please try again.", "error",
                   RequestSession(user.S), 0)
        ELSE IF user.rows = {} THEN Flash("User with ID <user_id> not found.", "error", S, 0)
        ELSE IF method = "GET" THEN Flash("", "", S, 0)
        ELSE IF ~v.ok THEN Flash(v.err, "error", S, 0)
        ELSE IF r.exc # ""
        THEN Flash("Error processing movie. Please try again.", "error",
                   RequestSession(r.S), r.commits)
        ELSE Flash("Movie added successfully!", "success", RequestSession(r.S), r.commits)

h_update_movie(S0, user_id, movie_id, method, form, fault) ==
    LET S == RequestSession(S0)
        movie == get_movie_by_id(S, movie_id, fault = "read")
        v == validate_movie_data(form, FALSE, {})
        r == update_movie(Assign(S, Changed(v, movie_id)), Changed(v, movie_id), fault)
    IN  IF movie.exc # ""
        THEN Flash("Error updating movie. Please try again.", "error",
                   RequestSession(movie.S), 0)
        ELSE IF movie.rows = {} \/ \E m \in movie.rows : m.user_id # user_id
        THEN Flash("Movie not found or access denied.", "error", S, 0)
        ELSE IF method = "GET" THEN Flash("", "", S, 0)
        ELSE IF ~v.ok THEN Flash(v.err, "error", S, 0)
        ELSE IF r.exc # ""
        THEN Flash("Error updating movie. Please try again.", "error",
                   RequestSession(r.S), r.commits)
        ELSE Flash("Movie updated successfully!", "success", RequestSession(r.S), r.commits)

\* delete_movie without the comparison of movie.user_id with user_id
h_delete_movie_unchecked(S0, user_id, movie_id, fault) ==
    LET S == RequestSession(S0)
        movie == get_movie_by_id(S, movie_id, fault = "read")
        r == delete_movie(S, movie_id, fault)
    IN  IF movie.exc # ""
        THEN Flash("Error deleting movie. Please try again.", "error",
                   RequestSession(movie.S), 0)
        ELSE IF movie.rows = {} THEN Flash("Movie not found.", "error", S, 0)
        ELSE IF r.exc # ""
        THEN Flash("Error deleting movie. Please try again.", "error",
                   RequestSession(r.S), r.commits)
        ELSE IF r.flag
        THEN Flash("Movie deleted successfully!", "success", RequestSession(r.S), r.commits)
        ELSE Flash("Error deleting movie.", "error", RequestSession(r.S), r.commits)

h_delete_movie(S0, user_id, movie_id, fault) ==
    LET S == RequestSession(S0)
        movie == get_movie_by_id(S, movie_id, fault = "read")
        r == delete_movie(S, movie_id, fault)
    IN  IF movie.exc # ""
        THEN Flash("Error deleting movie. Please try again.", "error",
                   RequestSession(movie.S), 0)
        ELSE IF movie.rows = {} THEN Flash("Movie not found.", "error", S, 0)
        ELSE IF \E m \in movie.rows : m.user_id # user_id
        THEN Flash("Access denied.", "error", S, 0)
        ELSE IF r.exc # ""
        THEN Flash("Error deleting movie. Please try again.", "error",
                   RequestSession(r.S), r.commits)
        ELSE IF r.flag
        THEN Flash("Movie deleted successfully!", "success", RequestSession(r.S), r.commits)
        ELSE Flash("Error deleting movie.", "error", RequestSession(r.S), r.commits)

\* -------------------------------------------------------------------- state
VARIABLES
    users,    \* committed rows of the users table
    movies,   \* committed rows of the movies table
    dirty,    \* pending attribute changes of the session
    last,     \* the last call or request and its outcome
    req,      \* per worker: the create request it has validated and not written
    probe     \* a validator call on one literal and its result

vars == <<users, movies, dirty, last, req, probe>>

Cur == State(users, movies, dirty)

\* ------------------------------------------------------------------- inputs
Form(name, director, year, rating) ==
    [name |-> name, director |-> director, year |-> year, rating |-> rating]

NoForm == Form(<<>>, <<>>, <<>>, <<>>)

UserForms ==
    { Form(<<"A">>, <<>>, <<>>, <<>>),
      Form(<<" ", "a", " ">>, <<>>, <<>>, <<>>),
      Form(<<"B">>, <<>>, <<>>, <<>>),
      Form(<<" ">>, <<>>, <<>>, <<>>),
      Form(Rep("x", UserNameMax + 1), <<>>, <<>>, <<>>) }

\* a form that passes validation, submitted when the storage fails
GoodUserForm == Form(<<"A">>, <<>>, <<>>, <<>>)

GoodMovieForm == Form(<<"U">>, <<"D">>, <<>>, <<>>)

MovieForms ==
    { GoodMovieForm,
      Form(<<"u", " ">>, <<" ", "d">>, <<"2", "0", "2", "5">>, <<"1", "0">>),
      Form(<<"U">>, <<"D">>, <<"2", "0", "2", "6">>, <<>>),
      Form(<<"B">>, <<"D">>, <<>>, <<"1", "1">>),
      Form(<<" ">>, <<"D">>, <<"2", "0", "2", "5">>, <<>>),
      Form(<<"U">>, <<>>, <<>>, <<"1", "0">>) }

\* the submitted form and the storage call that fails during the request
UserInputs ==
    {<<form, "none">> : form \in UserForms}
        \cup {<<GoodUserForm, fault>> : fault \in {"read", "commit"}}

MovieInputs ==
    {<<form, "none">> : form \in MovieForms}
        \cup {<<GoodMovieForm, fault>> : fault \in Faults \ {"none"}}

\* the forms of a collection with a second title of the same director
CollectionInputs ==
    MovieInputs \cup {<<Form(<<"B">>, <<"D">>, <<"1", "9", "0", "0">>, <<"1">>), "none">>}

\* the characters of the year and rating literals
Alphabet == Digits \cup {"a", "-", "+", "_", " "}

Literals == UNION {[1..n -> Alphabet] : n \in 0..MaxLit}

UserIds == 0..(MaxUsers + 1)

MovieIds == 0..(MaxMovies + 1)

Workers == {1, 2}

Idle == [pc |-> "idle", op |-> "", user_id |-> 0, data |-> DataFail("")]

NoCall == [op |-> "", kind |-> "", ok |-> FALSE, msg |-> "", exc |-> "", commits |-> 0]

NoProbe == [fn |-> "", arg |-> <<>>, ok |-> FALSE, err |-> "", val |-> None]

Init ==
    /\ users = {}
    /\ movies = {}
    /\ dirty = {}
    /\ last = NoCall
    /\ req = [w \in Workers |-> Idle]
    /\ probe = NoProbe

\* the tables stay within the bounds of the model
Within(S) ==
    /\ Cardinality(S.users) <= MaxUsers
    /\ \A m \in S.movies : m.id <= MaxMovies

\* the call op ends with outcome o
Finish(op, o) ==
    \E r \in {o} :
        /\ Within(r.S)
        /\ users' = r.S.users
        /\ movies' = r.S.movies
        /\ dirty' = r.S.dirty
        /\ last' = [op |-> op, kind |-> r.kind, ok |-> r.ok, msg |-> r.msg, exc |-> r.exc,
                    commits |-> r.commits]

\* ------------------------------------------------------------------ actions
\* POST /add_user
AddUserRequest ==
    \E in \in UserInputs :
        /\ Finish("add_user", h_add_user(Cur, "POST", in[1], in[2]))
        /\ UNCHANGED <<req, probe>>

\* POST /users/<user_id>/add_movie
AddMovieRequest ==
    \E user_id \in UserIds, in \in MovieInputs :
        /\ Finish("add_movie_to_user", h_add_movie_to_user(Cur, user_id, "POST", in[1], in[2]))
        /\ UNCHANGED <<req, probe>>

\* POST /users/<user_id>/update_movie/<movie_id>
UpdateMovieRequest ==
    \E user_id \in UserIds, movie_id \in MovieIds, in \in MovieInputs :
        /\ Finish("update_movie", h_update_movie(Cur, user_id, movie_id, "POST", in[1], in[2]))
        /\ UNCHANGED <<req, probe>>

\* POST /users/<user_id>/delete_movie/<movie_id>
DeleteMovieRequest ==
    \E user_id \in UserIds, movie_id \in MovieIds, fault \in Faults :
        /\ Finish("delete_movie", h_delete_movie(Cur, user_id, movie_id, fault))
        /\ UNCHANGED <<req, probe>>

CreateUser ==
    \E in \in UserInputs :
        /\ Finish("UserService.create_user", create_user(Cur, in[1], in[2]))
        /\ UNCHANGED <<req, probe>>

CreateMovieOf(inputs) ==
    \E user_id \in UserIds, in \in inputs :
        /\ Finish("MovieService.create_movie", create_movie(Cur, user_id, in[1], in[2]))
        /\ UNCHANGED <<req, probe>>

CreateMovie == CreateMovieOf(MovieInputs)

UpdateMovie ==
    \E movie_id \in MovieIds, in \in MovieInputs :
        /\ Finish("MovieService.update_movie", svc_update_movie(Cur, movie_id, in[1], in[2]))
        /\ UNCHANGED <<req, probe>>

DeleteMovie ==
    \E movie_id \in MovieIds, fault \in Faults :
        /\ Finish("MovieService.delete_movie", svc_delete_movie(Cur, movie_id, fault))
        /\ UNCHANGED <<req, probe>>

ValidateMovieOwnership ==
    \E movie_id \in MovieIds, user_id \in UserIds, fault \in {"none", "read"} :
        /\ Finish("MovieService.validate_movie_ownership",
                  validate_movie_ownership(Cur, movie_id, user_id, fault))
        /\ UNCHANGED <<req, probe>>

\* ----------------------------------------------------------- specifications
\* The application as app.py serves it: requests are handled one at a time.
Next ==
    \/ AddUserRequest
    \/ AddMovieRequest
    \/ UpdateMovieRequest
    \/ DeleteMovieRequest

Spec == Init /\ [][Next]_vars

\* The service layer, called one call at a time on one session.
NextService ==
    \/ CreateUser
    \/ CreateMovie
    \/ UpdateMovie
    \/ DeleteMovie
    \/ ValidateMovieOwnership

SpecService == Init /\ [][NextService]_vars

\* Only creations and deletions through the service layer.
CreateCollectionMovie == CreateMovieOf(CollectionInputs)

NextCreate ==
    \/ CreateUser
    \/ CreateCollectionMovie
    \/ DeleteMovie

SpecCreate == Init /\ [][NextCreate]_vars

\* Two workers serve create calls at the same time, each on its own session:
\* a call reads and validates in one step and writes in a later one.
WorkerSession == State(users, movies, {})

BeginCreateUser(w) ==
    \E form \in UserForms :
        LET existing_users == get_all_users(WorkerSession, FALSE)
            v == validate_user_data(form, existing_users.rows)
        IN  /\ req[w].pc = "idle"
            /\ IF v.ok
               THEN /\ req' = [req EXCEPT ![w] = [pc |-> "validated",
                                                  op |-> "UserService.create_user",
                                                  user_id |-> 0, data |-> v]]
                    /\ UNCHANGED <<users, movies, dirty, last>>
               ELSE /\ Finish("UserService.create_user",
                              SvcReturn(FALSE, v.err, {}, WorkerSession, 0))
                    /\ UNCHANGED req
            /\ UNCHANGED probe

BeginCreateMovie(w) ==
    \E user_id \in Ids(users), form \in MovieForms :
        LET existing_movies == get_user_movies(WorkerSession, user_id, FALSE)
            v == validate_movie_data(form, TRUE, existing_movies.rows)
        IN  /\ req[w].pc = "idle"
            /\ IF v.ok
               THEN /\ req' = [req EXCEPT ![w] = [pc |-> "validated",
                                                  op |-> "MovieService.create_movie",
                                                  user_id |-> user_id, data |-> v]]
                    /\ UNCHANGED <<users, movies, dirty, last>>
               ELSE /\ Finish("MovieService.create_movie",
                              SvcReturn(FALSE, v.err, {}, WorkerSession, 0))
                    /\ UNCHANGED req
            /\ UNCHANGED probe

EndCreateUser(w) ==
    /\ req[w].pc = "validated"
    /\ req[w].op = "UserService.create_user"
    /\ Finish(req[w].op,
              execute_service_method(add_user(WorkerSession, req[w].data.name, "none")))
    /\ req' = [req EXCEPT ![w] = Idle]
    /\ UNCHANGED probe

EndCreateMovie(w) ==
    /\ req[w].pc = "validated"
    /\ req[w].op = "MovieService.create_movie"
    /\ Finish(req[w].op,
              execute_service_method(
                  add_movie(WorkerSession, NewMovie(req[w].data, req[w].user_id), "none")))
    /\ req' = [req EXCEPT ![w] = Idle]
    /\ UNCHANGED probe

NextConcurrent ==
    \E w \in Workers :
        \/ BeginCreateUser(w)
        \/ EndCreateUser(w)
        \/ BeginCreateMovie(w)
        \/ EndCreateMovie(w)

SpecConcurrent == Init /\ [][NextConcurrent]_vars

\* The data-access layer, called one call at a time on one session with
\* argument values that no validator has seen.
\* the names of the User objects passed to add_user
DataUserNames == {<<"A">>, <<" ">>, Rep("x", UserNameMax + 1)}

\* the fields of the Movie objects passed to add_movie and update_movie
DataMovieFields ==
    { Form(<<"U">>, <<"D">>, None, None),
      Form(<<"B">>, <<"D">>, Some(YearMax + 1), Some(RatingMax + 1)) }

\* the user_id of the Movie objects passed to add_movie: none, the first
\* user and a user that does not exist
DataUserIds == {0, 1, MaxUsers + 1}

MovieObject(id, fields, user_id) ==
    MovieRow(id, fields.name, fields.director, fields.year, fields.rating, user_id)

\* the outcome of a data-manager call as its caller sees it
DataOutcome(r) ==
    [kind |-> IF r.exc = "" THEN "return" ELSE "raise", ok |-> r.flag, msg |-> r.msg,
     exc |-> r.exc, S |-> r.S, commits |-> r.commits]

DataAddUser ==
    \E name \in DataUserNames, fault \in {"none", "commit"} :
        /\ Finish("add_user", DataOutcome(add_user(Cur, name, fault)))
        /\ UNCHANGED <<req, probe>>

DataAddMovie ==
    \E fields \in DataMovieFields, user_id \in DataUserIds, fault \in Faults \ {"read"} :
        /\ Finish("add_movie", DataOutcome(add_movie(Cur, MovieObject(0, fields, user_id), fault)))
        /\ UNCHANGED <<req, probe>>

DataUpdateMovie ==
    \E movie_id \in MovieIds, fields \in DataMovieFields, fault \in Faults \ {"read"} :
        /\ Finish("update_movie",
                  DataOutcome(update_movie(Cur, MovieObject(movie_id, fields, 0), fault)))
        /\ UNCHANGED <<req, probe>>

DataDeleteMovie ==
    \E movie_id \in MovieIds, fault \in Faults \ {"read"} :
        /\ Finish("delete_movie", DataOutcome(delete_movie(Cur, movie_id, fault)))
        /\ UNCHANGED <<req, probe>>

NextData ==
    \/ DataAddUser
    \/ DataAddMovie
    \/ DataUpdateMovie
    \/ DataDeleteMovie

SpecData == Init /\ [][NextData]_vars

\* The year and rating validators applied to every literal.
InitProbe ==
    /\ users = {}
    /\ movies = {}
    /\ dirty = {}
    /\ last = NoCall
    /\ req = [w \in Workers |-> Idle]
    /\ probe \in {[NoProbe EXCEPT !.arg = s] : s \in Literals}

Probed(fn, r) ==
    /\ probe.fn = ""
    /\ probe' = [fn |-> fn, arg |-> probe.arg, ok |-> r.ok, err |-> r.err, val |-> r.val]
    /\ UNCHANGED <<users, movies, dirty, last, req>>

ProbeYear == Probed("validate_year", validate_year(probe.arg))

ProbeRating == Probed("validate_rating", validate_rating(probe.arg))

NextProbe ==
    \/ ProbeYear
    \/ ProbeRating

SpecValidators == InitProbe /\ [][NextProbe]_vars

\* validate_movie_data applied to every form built from these field values,
\* without a list of existing movies, with an empty one and with one that
\* holds the title "u" by "D".
FormNames == {<<>>, <<" ">>, <<"U">>, <<" ", "u", " ">>, Rep("x", MovieNameMax),
              Rep("x", MovieNameMax + 1)}

FormDirectors == {<<>>, <<"D">>, <<" ", "d">>, Rep("x", MovieNameMax + 1)}

FormYears == {<<>>, <<" ">>, <<"x">>, <<" ", "1", "9", "0", "0">>, <<"2", "0", "2", "5">>,
              <<"2", "0", "2", "6">>}

FormRatings == {<<>>, <<"x">>, <<"0">>, <<"1", "0">>, <<"1", "1">>}

ProbeForms ==
    {Form(name, director, year, rating) :
        name \in FormNames, director \in FormDirectors, year \in FormYears,
        rating \in FormRatings}

\* existing_movies: None, [] or a list
ExistingMovies ==
    { [check_dup |-> FALSE, rows |-> {}],
      [check_dup |-> TRUE, rows |-> {}],
      [check_dup |-> TRUE, rows |-> {MovieRow(1, <<"u">>, <<"D">>, None, None, 1)}] }

InitMovieData ==
    /\ users = {}
    /\ movies = {}
    /\ dirty = {}
    /\ last = NoCall
    /\ req = [w \in Workers |-> Idle]
    /\ probe \in {[fn |-> "", arg |-> form, existing_movies |-> existing,
                    result |-> DataFail("")] :
                       form \in ProbeForms, existing \in ExistingMovies}

ValidateMovieData ==
    /\ probe.fn = ""
    /\ probe' = [probe EXCEPT
                    !.fn = "validate_movie_data",
                    !.result = validate_movie_data(probe.arg, probe.existing_movies.check_dup,
                                                   probe.existing_movies.rows)]
    /\ UNCHANGED <<users, movies, dirty, last, req>>

NextMovieData == ValidateMovieData

SpecMovieData == InitMovieData /\ [][NextMovieData]_vars

\* ------------------------------------------------------------------- claims
\* a movie with this id exists and belongs to another user than user_id
OwnedByOther(user_id, movie_id) ==
    \E m \in movies : m.id = movie_id /\ m.user_id # user_id

\* C1: an update_movie or delete_movie request carrying (user_id, movie_id)
\* for an existing movie of another user is refused as access denied (when
\* the movie can be read at all) and leaves the storage as it was; whatever
\* the request, the only rows it changes or removes belong to its user_id.
C1_ForeignMovieUntouched ==
    \A user_id \in UserIds, movie_id \in MovieIds :
        /\ \A in \in MovieInputs, method \in {"GET", "POST"} :
              LET o == h_update_movie(Cur, user_id, movie_id, method, in[1], in[2])
              IN  /\ OwnedByOther(user_id, movie_id) =>
                        /\ o.S = Cur
                        /\ ~o.ok
                        /\ in[2] # "read" => o.msg = "Movie not found or access denied."
                  /\ \A m \in movies : m \notin o.S.movies => m.user_id = user_id
        /\ \A fault \in Faults :
              LET o == h_delete_movie(Cur, user_id, movie_id, fault)
              IN  /\ OwnedByOther(user_id, movie_id) =>
                        /\ o.S = Cur
                        /\ ~o.ok
                        /\ fault # "read" => o.msg = "Access denied."
                  /\ \A m \in movies : m \notin o.S.movies => m.user_id = user_id

\* C1 witness: a delete request for another user's movie was refused and
\* the movie is still there
C1_Witness ==
    /\ last.op = "delete_movie"
    /\ last.msg = "Access denied."
    /\ movies # {}

\* the names are equal ignoring case
SameName(a, b) == Lower(a) = Lower(b)

UniqueUserNames ==
    \A u1 \in users, u2 \in users : SameName(u1.name, u2.name) => u1 = u2

UniqueMoviesPerUser ==
    \A m1 \in movies, m2 \in movies :
        (/\ m1.user_id = m2.user_id
         /\ SameName(m1.name, m2.name)
         /\ SameName(m1.director, m2.director)) => m1 = m2

\* C2: after create_user calls made one after another no two users have
\* names that are equal ignoring case, and a create_user whose trimmed name
\* equals an existing name ignoring case returns the duplicate-name message
\* and adds no row.
C2_UniqueUserNames ==
    /\ UniqueUserNames
    /\ \A form \in UserForms :
          (\E u \in users : SameName(u.name, Strip(form.name))) =>
              LET o == create_user(Cur, form, "none")
              IN  /\ o.kind = "return"
                  /\ ~o.ok
                  /\ o.msg = "A user with this name already exists."
                  /\ o.S = Cur

\* C2 witness: "A" is stored under one spelling and a create_user was
\* refused as a duplicate
C2_Witness ==
    /\ last.op = "UserService.create_user"
    /\ last.msg = "A user with this name already exists."
    /\ \E u \in users : u.name = <<"A">>
    /\ ~\E u \in users : u.name = <<"a">>

\* C3: when create calls for equal names (or equal name and director of one
\* user) interleave, at most one row is persisted.
C3_AtMostOneRow == UniqueUserNames /\ UniqueMoviesPerUser

\* the forms that pass validation, with the fields they are cleaned to
CleanForms ==
    { <<GoodMovieForm, Data(<<"U">>, <<"D">>, None, None)>>,
      <<Form(<<"u", " ">>, <<" ", "d">>, <<"2", "0", "2", "5">>, <<"1", "0">>),
        Data(<<"u">>, <<"d">>, Some(2025), Some(10))>>,
      <<Form(<<"B">>, <<"D">>, <<"1", "9", "0", "0">>, <<"1">>),
        Data(<<"B">>, <<"D">>, Some(1900), Some(1))>> }

\* C4 as stated: creating a movie with any user_id that matches no persisted
\* user fails with the not-found error, before a write, and the movies are
\* unchanged.
C4_AnyMissingUserNotFound ==
    \A user_id \in UserIds \ Ids(users), c \in CleanForms :
        LET r == add_movie(Cur, NewMovie(c[2], user_id), "none")
            o == create_movie(Cur, user_id, c[1], "none")
        IN  /\ r.exc = "ValueError"
            /\ r.msg = "User with ID <user_id> does not exist"
            /\ r.commits = 0
            /\ r.S = Cur
            /\ ~o.ok
            /\ o.msg = "User with ID <user_id> does not exist"
            /\ o.S = Cur

\* C4, amended: creating a movie with a user_id that matches no persisted
\* user fails before any commit is attempted and leaves the storage as it
\* was, with the not-found error when the user_id is not zero and with
\* "Movie must be associated with a user" when it is zero; every persisted
\* movie's user_id is the id of a persisted user.
C4_MissingUserRejected ==
    /\ \A m \in movies : m.user_id \in Ids(users)
    /\ \A user_id \in UserIds \ Ids(users), c \in CleanForms, fault \in {"none", "commit"} :
          LET r == add_movie(Cur, NewMovie(c[2], user_id), fault)
              o == create_movie(Cur, user_id, c[1], fault)
              msg == IF user_id = 0 THEN "Movie must be associated with a user"
                     ELSE "User with ID <user_id> does not exist"
          IN  /\ r.exc = "ValueError"
              /\ r.msg = msg
              /\ r.commits = 0
              /\ r.S = Cur
              /\ o.kind = "return"
              /\ ~o.ok
              /\ o.msg = msg
              /\ o.commits = 0
              /\ o.S = Cur

\* C4 witness: a create_movie for a user id that is not persisted was
\* refused while a movie of a persisted user is stored
C4_Witness ==
    /\ last.op = "MovieService.create_movie"
    /\ last.msg = "User with ID <user_id> does not exist"
    /\ movies # {}

\* forms that fail validation, with the message of the rule they break
InvalidForms ==
    { <<Form(<<"U">>, <<"D">>, <<"2", "0", "2", "6">>, <<>>),
        "Year must be between 1900 and 2025.">>,
      <<Form(<<"B">>, <<"D">>, <<>>, <<"1", "1">>), "Rating must be between 1 and 10.">>,
      <<Form(<<" ">>, <<"D">>, <<"2", "0", "2", "5">>, <<>>), "Movie name is required.">>,
      <<Form(<<"U">>, <<>>, <<>>, <<"1", "0">>), "Director name is required.">> }

\* C5: an update_movie request or MovieService.update_movie call whose form
\* fails validation returns the validation error, attempts no commit and
\* leaves the rows and the session as they were, so that no later read or
\* commit shows a change of the movie.
C5_InvalidUpdateLeavesMovie ==
    \A m \in movies, bad \in InvalidForms :
        LET o == svc_update_movie(Cur, m.id, bad[1], "none")
            h == h_update_movie(Cur, m.user_id, m.id, "POST", bad[1], "none")
        IN  /\ o.kind = "return"
            /\ ~o.ok
            /\ o.msg = bad[2]
            /\ o.commits = 0
            /\ o.S = Cur
            /\ Commit(o.S).movies = movies
            /\ ~h.ok
            /\ h.msg = bad[2]
            /\ h.commits = 0
            /\ h.S.users = users
            /\ h.S.movies = movies
            /\ h.S.dirty = {}

\* C5 witness: an update with a year out of range was refused and the movie
\* is stored
C5_Witness ==
    /\ last.op = "MovieService.update_movie"
    /\ last.msg = "Year must be between 1900 and 2025."
    /\ movies # {}

\* C6: deleting a non-zero movie id that matches no persisted movie does not
\* raise: the data manager returns False, the service returns
\* (False, "Movie not found."), and users and movies are unchanged.
C6_DeleteMissingMovie ==
    \A movie_id \in MovieIds \ (Ids(movies) \cup {0}), fault \in {"none", "commit"} :
        LET r == delete_movie(Cur, movie_id, fault)
            o == svc_delete_movie(Cur, movie_id, fault)
        IN  /\ r.exc = ""
            /\ ~r.flag
            /\ r.commits = 0
            /\ r.S = Cur
            /\ o.kind = "return"
            /\ ~o.ok
            /\ o.msg = "Movie not found."
            /\ o.S = Cur

\* C6 witness: a delete of a missing id returned "Movie not found." while
\* another movie is stored
C6_Witness ==
    /\ last.op = "MovieService.delete_movie"
    /\ last.kind = "return"
    /\ last.msg = "Movie not found."
    /\ movies # {}

ServiceWrites ==
    {"UserService.create_user", "MovieService.create_movie",
     "MovieService.update_movie", "MovieService.delete_movie"}

\* C7: every call of create_user, create_movie, update_movie and
\* delete_movie of the services returns a pair and never propagates an
\* exception, and what the storage reports is never part of the message.
C7_NeverPropagates ==
    last.op \in ServiceWrites => (last.kind = "return" /\ last.msg # StorageError)

\* C8: create_movie(u, form) fails with the duplicate message and adds no row
\* when u owns a movie with the same name and director ignoring case; when u
\* is a persisted user owning no such movie it succeeds, whatever other users
\* own; no user owns two movies with equal name and director ignoring case.
C8_NoDuplicateMovie ==
    /\ UniqueMoviesPerUser
    /\ \A user_id \in UserIds, c \in CleanForms :
          LET o == create_movie(Cur, user_id, c[1], "none")
              dup == \E m \in movies :
                        /\ m.user_id = user_id
                        /\ SameName(m.name, c[2].name)
                        /\ SameName(m.director, c[2].director)
          IN  /\ dup => /\ o.kind = "return"
                        /\ ~o.ok
                        /\ o.msg = "This movie already exists in your collection."
                        /\ o.S = Cur
              /\ (~dup /\ user_id \in Ids(users)) =>
                    /\ o.ok
                    /\ o.S.movies \ movies =
                          {MovieRow(NextId(movies), c[2].name, c[2].director, c[2].year,
                                    c[2].rating, user_id)}

\* C8 witness: a create_movie was refused as a duplicate while two users own
\* the same title of the same director
C8_Witness ==
    /\ last.op = "MovieService.create_movie"
    /\ last.msg = "This movie already exists in your collection."
    /\ \E m1 \in movies, m2 \in movies :
          /\ m1.user_id # m2.user_id
          /\ SameName(m1.name, m2.name)
          /\ SameName(m1.director, m2.director)

\* C9 as stated: validate_movie_ownership returns (False, "Movie not found.")
\* when no movie has the id, (False, "Access denied.") when the movie belongs
\* to another user, and (True, movie) otherwise.
C9_ThreeOutcomes ==
    \A movie_id \in MovieIds, user_id \in UserIds :
        LET o == validate_movie_ownership(Cur, movie_id, user_id, "none")
            found == {m \in movies : m.id = movie_id}
        IN  IF found = {} THEN ~o.ok /\ o.msg = "Movie not found."
            ELSE IF OwnedByOther(user_id, movie_id) THEN ~o.ok /\ o.msg = "Access denied."
            ELSE o.ok /\ o.rows = found

\* C9, amended: for a non-zero movie_id that can be read the three outcomes
\* are as stated; for a zero movie_id, or when the read fails, the result is
\* (False, "Error validating movie access."); the persisted users and movies
\* are never modified.
C9_Ownership ==
    \A movie_id \in MovieIds, user_id \in UserIds, fault \in {"none", "read"} :
        LET o == validate_movie_ownership(Cur, movie_id, user_id, fault)
            found == {m \in movies : m.id = movie_id}
        IN  /\ o.kind = "return"
            /\ o.S.users = users
            /\ o.S.movies = movies
            /\ o.commits = 0
            /\ IF movie_id = 0 \/ fault = "read"
               THEN ~o.ok /\ o.msg = "Error validating movie access."
               ELSE IF found = {} THEN ~o.ok /\ o.msg = "Movie not found."
               ELSE IF OwnedByOther(user_id, movie_id)
                    THEN ~o.ok /\ o.msg = "Access denied."
               ELSE o.ok /\ o.rows = found

\* C9 witness: the ownership of a stored movie was denied to another user
C9_Witness ==
    /\ last.op = "MovieService.validate_movie_ownership"
    /\ last.msg = "Access denied."
    /\ movies # {}

\* C10: validate_year and validate_rating accept the empty input with None,
\* reject what int() does not parse with the parse error, reject an integer
\* outside 1900..2025 (1..10) with the range error and return any other
\* integer; 1900, 2025, 1 and 10 are accepted, 1899, 2026, 0 and 11 rejected.
C10_YearAndRating ==
    LET n == IntValue(probe.arg)
        Checked(lo, hi, parse_error, range_error) ==
            IF probe.arg = <<>> THEN probe.ok /\ probe.val = None
            ELSE IF ~IsIntLiteral(probe.arg) THEN ~probe.ok /\ probe.err = parse_error
            ELSE IF n < lo \/ n > hi THEN ~probe.ok /\ probe.err = range_error
            ELSE probe.ok /\ probe.val = <<n>>
        Accepted(arg, v) == probe.arg = arg => (probe.ok /\ probe.val = <<v>>)
        Rejected(arg, range_error) ==
            probe.arg = arg => (~probe.ok /\ probe.err = range_error /\ probe.val = None)
    IN  /\ probe.fn = "validate_year" =>
              /\ Checked(1900, 2025, "Please enter a valid year.",
                         "Year must be between 1900 and 2025.")
              /\ Accepted(<<"1", "9", "0", "0">>, 1900)
              /\ Accepted(<<"2", "0", "2", "5">>, 2025)
              /\ Rejected(<<"1", "8", "9", "9">>, "Year must be between 1900 and 2025.")
              /\ Rejected(<<"2", "0", "2", "6">>, "Year must be between 1900 and 2025.")
        /\ probe.fn = "validate_rating" =>
              /\ Checked(1, 10, "Please enter a valid rating.",
                         "Rating must be between 1 and 10.")
              /\ Accepted(<<"1">>, 1)
              /\ Accepted(<<"1", "0">>, 10)
              /\ Rejected(<<"0">>, "Rating must be between 1 and 10.")
              /\ Rejected(<<"1", "1">>, "Rating must be between 1 and 10.")

\* C10 witness: validate_year has accepted the lower limit
C10_Witness ==
    /\ probe.fn = "validate_year"
    /\ probe.arg = <<"1", "9", "0", "0">>
    /\ probe.ok
    /\ probe.val = <<1900>>

\* fields that the re-validation of update_movie rejects
RejectedMovieFields ==
    { Form(<<" ">>, <<"D">>, None, None),
      Form(<<"U">>, <<>>, None, None),
      Form(<<"U">>, <<"D">>, None, Some(RatingMin - 1)),
      Form(<<"U">>, <<"D">>, None, Some(RatingMax + 1)),
      Form(<<"U">>, <<"D">>, Some(YearMin - 1), None),
      Form(<<"U">>, <<"D">>, Some(YearMax + 1), None) }

\* the write calls of the data-access layer: operation, user name, Movie
\* object and the storage call that fails
WriteCalls ==
    {[op |-> "add_user", name |-> name, movie |-> MovieObject(0, NoForm, 0), fault |-> fault] :
        name \in DataUserNames, fault \in {"none", "commit"}}
    \cup {[op |-> "add_movie", name |-> <<>>, movie |-> MovieObject(0, fields, user_id),
           fault |-> fault] :
        fields \in DataMovieFields, user_id \in DataUserIds, fault \in Faults \ {"read"}}
    \cup {[op |-> "update_movie", name |-> <<>>, movie |-> MovieObject(movie_id, fields, 0),
           fault |-> fault] :
        movie_id \in MovieIds, fields \in DataMovieFields \cup RejectedMovieFields,
        fault \in Faults \ {"read"}}
    \cup {[op |-> "delete_movie", name |-> <<>>, movie |-> MovieObject(movie_id, NoForm, 0),
           fault |-> fault] :
        movie_id \in MovieIds, fault \in Faults \ {"read"}}

Write(S, c) ==
    CASE c.op = "add_user" -> add_user(S, c.name, c.fault)
      [] c.op = "add_movie" -> add_movie(S, c.movie, c.fault)
      [] c.op = "update_movie" -> update_movie(S, c.movie, c.fault)
      [] c.op = "delete_movie" -> delete_movie(S, c.movie.id, c.fault)

\* C11: on a session without pending changes, a write call of the data-access
\* layer that raises leaves the committed users and movies as they were, and
\* every successful write call that follows it on the same session commits
\* exactly the rows it would have committed had the failed call never been
\* made; so an update_movie rejected by the re-validation never reaches the
\* stored name, director, year or rating.
C11_FailedWriteNotPersistent ==
    dirty = {} =>
        \A c \in WriteCalls :
            LET r == Write(Cur, c)
            IN  r.exc # "" =>
                    /\ r.S.users = users
                    /\ r.S.movies = movies
                    /\ \A n \in {w \in WriteCalls : w.fault = "none"} :
                          LET q    == Write(r.S, n)
                              base == Write(Cur, n)
                          IN  q.exc = "" =>
                                  /\ q.S.users = base.S.users
                                  /\ q.S.movies = base.S.movies

\* another movie of the owner of movie_id has this name and director
TakenByOther(movie_id, name, director) ==
    \E m \in movies, other \in movies :
        /\ m.id = movie_id
        /\ other.id # movie_id
        /\ other.user_id = m.user_id
        /\ other.name = name
        /\ other.director = director

\* C12: on a session without pending changes, an update_movie (data-access
\* call or MovieService.update_movie with a valid form) whose name and
\* director are those of another movie of the same user fails with the
\* conflict message and leaves the movie rows as they were.
C12_DuplicateUpdateConflicts ==
    dirty = {} =>
        /\ \A movie_id \in Ids(movies), fields \in DataMovieFields :
              LET movie == MovieObject(movie_id, fields, 0)
                  r     == update_movie(Cur, movie, "none")
              IN  (update_movie_check(movie) = ""
                      /\ TakenByOther(movie_id, fields.name, fields.director)) =>
                      /\ r.exc = "ValueError"
                      /\ r.msg = "A movie with this name and director already exists for this user."
                      /\ r.S.movies = movies
        /\ \A movie_id \in Ids(movies), form \in MovieForms :
              LET v == validate_movie_data(form, FALSE, {})
                  o == svc_update_movie(Cur, movie_id, form, "none")
              IN  (v.ok /\ TakenByOther(movie_id, v.name, v.director)) =>
                      /\ ~o.ok
                      /\ o.S.movies = movies

\* C13: every persisted user has a non-blank name of at most 30 characters,
\* every persisted movie a non-blank name and director of at most 60
\* characters, a year that is null or within 1900..2025 and a rating that
\* is null or within 1..10.
C13_PersistedWithinBounds ==
    /\ \A u \in users : ~Blank(u.name) /\ Len(u.name) <= UserNameMax
    /\ \A m \in movies :
          /\ ~Blank(m.name) /\ Len(m.name) <= MovieNameMax
          /\ ~Blank(m.director) /\ Len(m.director) <= MovieNameMax
          /\ m.year = None \/ (m.year[1] >= YearMin /\ m.year[1] <= YearMax)
          /\ m.rating = None \/ (m.rating[1] >= RatingMin /\ m.rating[1] <= RatingMax)

\* C14: validate_movie_data returns the error of the first failing check in
\* the order name, director, year, rating, duplicate (the duplicate check
\* only when existing_movies is supplied), however many checks the form
\* fails; when no check fails it returns the trimmed name and director, the
\* year and rating as None when blank and as their integers otherwise.
C14_FirstFailureInOrder ==
    probe.fn = "validate_movie_data" =>
        LET r          == probe.result
            existing   == probe.existing_movies
            name       == Strip(probe.arg.name)
            director   == Strip(probe.arg.director)
            year_str   == Strip(probe.arg.year)
            rating_str == Strip(probe.arg.rating)
            errors     == << validate_movie_name(name).err,
                             validate_director_name(director).err,
                             validate_year(year_str).err,
                             validate_rating(rating_str).err,
                             IF existing.check_dup
                             THEN validate_movie_duplicate(name, director, existing.rows).err
                             ELSE "" >>
            failing    == {i \in 1..5 : errors[i] # ""}
            first      == CHOOSE i \in failing : \A j \in failing : i <= j
            Number(s)  == IF s = <<>> THEN None ELSE <<IntValue(s)>>
            Reports(form, msg) == probe.arg = form => (~r.ok /\ r.err = msg)
        IN  /\ failing # {} => (~r.ok /\ r.err = errors[first])
            /\ failing = {} =>
                  /\ r.ok
                  /\ r.name = name
                  /\ r.director = director
                  /\ r.year = Number(year_str)
                  /\ r.rating = Number(rating_str)
            /\ Reports(Form(<<" ">>, <<>>, <<"x">>, <<"1", "1">>), "Movie name is required.")
            /\ Reports(Form(<<"U">>, <<>>, <<"2", "0", "2", "6">>, <<"x">>),
                       "Director name is required.")
            /\ Reports(Form(<<"U">>, <<"D">>, <<"2", "0", "2", "6">>, <<"1", "1">>),
                       "Year must be between 1900 and 2025.")
            /\ Reports(Form(<<"U">>, <<"D">>, <<"x">>, <<"0">>), "Please enter a valid year.")
            /\ Reports(Form(<<"U">>, <<"D">>, <<>>, <<"1", "1">>),
                       "Rating must be between 1 and 10.")
            /\ (probe.arg = Form(<<" ", "u", " ">>, <<" ", "d">>, <<" ", "1", "9", "0", "0">>,
                                 <<"1", "0">>)) =>
                  IF existing.check_dup /\ existing.rows # {}
                  THEN ~r.ok /\ r.err = "This movie already exists in your collection."
                  ELSE r = Data(<<"u">>, <<"d">>, <<1900>>, <<10>>)

\* C14 witness: a form with a year and a rating out of range and the name
\* and director of an existing movie has been refused for its year
C14_Witness ==
    /\ probe.fn = "validate_movie_data"
    /\ probe.arg = Form(<<"U">>, <<"D">>, <<"2", "0", "2", "6">>, <<"1", "1">>)
    /\ probe.existing_movies.rows # {}
    /\ ~probe.result.ok
    /\ probe.result.err = "Year must be between 1900 and 2025."

\* the rows have pairwise distinct ids
DistinctIds(rows) == \A a, b \in rows : a.id = b.id => a = b

\* C15: a successful update_movie leaves the users, the set of movie ids,
\* the user_id of every movie and every movie other than the one with the
\* given id as they were; a successful delete_movie removes the movie with
\* the given id and leaves the users and the other movies as they were; the
\* ids of the persisted users and of the persisted movies are pairwise
\* distinct.
C15_FrameOfUpdateAndDelete ==
    /\ \A movie_id \in MovieIds, fields \in DataMovieFields \cup RejectedMovieFields :
          LET r == update_movie(Cur, MovieObject(movie_id, fields, 0), "none")
          IN  r.exc = "" =>
                  /\ r.S.users = users
                  /\ Ids(r.S.movies) = Ids(movies)
                  /\ \A m \in movies, n \in r.S.movies :
                        m.id = n.id =>
                            /\ n.user_id = m.user_id
                            /\ m.id # movie_id => n = m
    /\ \A movie_id \in MovieIds :
          LET r == delete_movie(Cur, movie_id, "none")
          IN  (r.exc = "" /\ r.flag) =>
                  /\ r.S.users = users
                  /\ r.S.movies = {m \in movies : m.id # movie_id}
    /\ DistinctIds(users)
    /\ DistinctIds(movies)
====
